---- MODULE Spec2Model ----
(***************************************************************************)
(* Model of the SteamSaleTracker plugin (src/main.py): the subscription    *)
(* store kept in monitor_list.json, the asyncio lock that guards it, the   *)
(* subscribe / unsubscribe / refresh / list-all command handlers, and the  *)
(* poll-diff-notify round (monitor_prices driven by run_monitor_prices).   *)
(*                                                                         *)
(* Every task is an asyncio coroutine: the code between two suspension     *)
(* points (await / yield) runs atomically, so each action below is one     *)
(* such stretch of code.                                                   *)
(*                                                                         *)
(* Prices are kept in minor units (1/100 of the currency unit): the value  *)
(* 3999 stands for the float 39.99 that the code stores.  Differences and  *)
(* comparisons of such floats agree with those of the minor-unit integers. *)
(*                                                                         *)
(* Specifications:                                                         *)
(*   Spec        commands, rounds and the price source, on an empty store  *)
(*   SpecStored  the same on a store left by an earlier run                *)
(*   SpecShared  the same on that store, with all commands still to come   *)
(*   SpecCold    start-up: catalog sync, loading of the store, the event   *)
(*               data_initialized and the handlers that wait for it        *)
(*   SpecColdFair  SpecCold with weak fairness of the start-up steps       *)
(*   SpecPure    one call of get_appid_by_name and one of get_steam_price  *)
(*               on inputs drawn from bounded sets                         *)
(***************************************************************************)
EXTENDS Integers, Sequences, FiniteSets, TLC

\* ---------------------------------------------------------------- bounds
\* number of command invocations in a behaviour
MaxCmds == 2
\* number of scheduler ticks in a behaviour
MaxTicks == 1
\* number of price changes at the price source in a behaviour
MaxChanges == 1

\* ------------------------------------------------------------- constants
\* JSON null / Python None in a numeric field of a stored item
None == -1
\* minimum fuzzy-match score accepted by get_appid_by_name
MinScore == 70

\* the catalog (app_dict_all): name -> appid, as loaded by get_app_list
AppNames == {"Portal", "Hades"}
app_dict_all == [n \in AppNames |-> IF n = "Portal" THEN 10 ELSE 20]
app_dict_all_reverse == [a \in {10, 20} |-> IF a = 10 THEN "Portal" ELSE "Hades"]

\* str(int) and int(str) on the canonical decimal spellings used as keys
str(a) == IF a = 10 THEN "10" ELSE "20"
int(s) == IF s = "10" THEN 10 ELSE 20
GameIds == {"10", "20"}

\* unified_msg_origin values "platform:message_type:identifiers"; a value is
\* kept as the list its split(":") yields, and the identifiers part as the
\* list its split("_") yields.
OriginFriend == <<"aiocqhttp", "FriendMessage", <<"u1">>>>
OriginGroup == <<"aiocqhttp", "GroupMessage", <<"u2", "g1">>>>
Origins == {OriginFriend, OriginGroup}
\* a group address without a user-identifier (no session isolation): it is a
\* subscriber of stored items, not one of the callers of a behaviour
OriginGroupOnly == <<"aiocqhttp", "GroupMessage", <<"g2">>>>

\* tasks: the scheduler job and one command-handling task per caller
Sched == <<"scheduler">>
Tasks == Origins \cup {Sched}

\* ------------------------------------------------------- price source
\* what the appdetails endpoint currently holds for a game (data["data"])
PriceFull == [is_free |-> FALSE, final |-> 5999, initial |-> 5999, discount_percent |-> 0]
PriceSale == [is_free |-> FALSE, final |-> 3999, initial |-> 5999, discount_percent |-> 33]
PriceFree == [is_free |-> TRUE, final |-> 0, initial |-> 0, discount_percent |-> 0]
MarketStates == {PriceFull, PriceSale, PriceFree}

\* response classes of one request to the endpoint
Responses(m) ==
  { [class |-> "exception"], [class |-> "absent"], [class |-> "unsuccessful"],
    [class |-> "no_price_overview"],
    [class |-> "ok", data |-> m] }

AllResponses == UNION {Responses(m) : m \in MarketStates}

\* the None that get_steam_price returns when no price is available
NotAvailable == [is_free |-> FALSE, current_price |-> None, original_price |-> None,
                 discount |-> None, currency |-> "None"]

\* a number of the model is a fixed-point number with two decimals: the
\* integer n of a response is n * 100 hundredths
fixed(n) == n * 100

\* variant: a free game is priced from the numbers of its response
get_steam_price_free_as_priced(res) ==
  IF res.class # "ok" THEN NotAvailable
  ELSE [is_free |-> res.data.is_free,
        current_price |-> fixed(res.data.final) \div 100,
        original_price |-> fixed(res.data.initial) \div 100,
        discount |-> res.data.discount_percent, currency |-> "CNY"]

\* get_steam_price: the snapshot dict built from a response; every failure
\* class ends in `return None`, the exception class through `except Exception`
get_steam_price(res) ==
  IF res.class # "ok" THEN NotAvailable
  ELSE IF res.data.is_free
       THEN [is_free |-> TRUE, current_price |-> 0, original_price |-> 0,
             discount |-> 100, currency |-> "FREE"]
       ELSE [is_free |-> FALSE,
             current_price |-> fixed(res.data.final) \div 100,
             original_price |-> fixed(res.data.initial) \div 100,
             discount |-> res.data.discount_percent, currency |-> "CNY"]

\* ------------------------------------------------------ origin parsing
\* _parse_unified_origin; ok = FALSE stands for the exception it raises
\* (IndexError on fewer than three parts, ValueError on a bad unpack)
parse_unified_origin(origin) ==
  IF Len(origin) < 3 THEN [ok |-> FALSE]
  ELSE LET message_type == origin[2]
           identifiers == origin[3]
       IN IF message_type = "FriendMessage"
          THEN [ok |-> TRUE, platform |-> origin[1], message_type |-> message_type,
                user_id |-> identifiers, group_id |-> <<>>]
          ELSE IF message_type = "GroupMessage"
          THEN IF Len(identifiers) > 1
               THEN IF Len(identifiers) = 2
                    THEN [ok |-> TRUE, platform |-> origin[1],
                          message_type |-> message_type,
                          user_id |-> <<identifiers[1]>>,
                          group_id |-> <<identifiers[2]>>]
                    ELSE [ok |-> FALSE]
               ELSE [ok |-> TRUE, platform |-> origin[1],
                     message_type |-> message_type,
                     user_id |-> <<>>, group_id |-> identifiers]
          ELSE [ok |-> TRUE, platform |-> origin[1], message_type |-> message_type,
                user_id |-> <<>>, group_id |-> <<>>]

\* ------------------------------------------- the store as an ordered dict
\* monitor_list.json: a dict in insertion order, kept as a sequence of items
Keys(ml) == {ml[k].appid : k \in 1..Len(ml)}
Has(ml, gid) == gid \in Keys(ml)
IndexOf(ml, gid) == CHOOSE k \in 1..Len(ml) : ml[k].appid = gid
Get(ml, gid) == ml[IndexOf(ml, gid)]
Del(ml, gid) == SelectSeq(ml, LAMBDA it : it.appid # gid)
SeqSet(s) == {s[k] : k \in 1..Len(s)}
Count(s, x) == Cardinality({k \in 1..Len(s) : s[k] = x})
\* list.remove(x): drops the first occurrence of x
RemoveFirst(s, x) ==
  LET k == CHOOSE k \in 1..Len(s) : s[k] = x /\ \A h \in 1..(k - 1) : s[h] # x
  IN SubSeq(s, 1, k - 1) \o SubSeq(s, k + 1, Len(s))

NewItem(gid, game_name) ==
  [appid |-> gid, name |-> game_name, region |-> "cn", last_price |-> None,
   original_price |-> None, discount |-> None, subscribers |-> <<>>]

\* ------------------------------------------------------- fuzzy resolver
\* the texts a caller may ask the resolver for
Queries == AppNames \cup {"Portl", "Doom"}

\* fuzz.token_set_ratio on the queries and names of this model, rounded down.
\* Both texts are one token, so the score is 200 * LCS / (sum of the lengths):
\* a name scores 100 against itself; "Portal" and "Hades" share one letter,
\* 200*1/11 = 18; "Portl" in "Portal" 200*5/11 = 90; "Doom" and "Portal"
\* 200*1/10 = 20; "Portl" or "Doom" against "Hades" share nothing
token_set_ratio(user_input, name) ==
  IF user_input = name THEN 100
  ELSE IF user_input = "Portl" THEN (IF name = "Portal" THEN 90 ELSE 0)
  ELSE IF user_input = "Doom" THEN (IF name = "Portal" THEN 20 ELSE 0)
  ELSE 18

\* process.extractOne: a key of the dict with the highest score
extractOne(user_input, target_dict) ==
  CHOOSE n \in DOMAIN target_dict :
    \A o \in DOMAIN target_dict :
      token_set_ratio(user_input, o) <= token_set_ratio(user_input, n)

NotFound == <<>>

\* get_appid_by_name: <<appid, matched name>> or NotFound (None)
get_appid_by_name(user_input, target_dict) ==
  LET dict == IF DOMAIN target_dict = {} THEN app_dict_all ELSE target_dict
  IN IF DOMAIN dict = {} THEN NotFound
     ELSE LET matched_name == extractOne(user_input, dict)
          IN IF token_set_ratio(user_input, matched_name) >= MinScore
             THEN <<dict[matched_name], matched_name>>
             ELSE NotFound

\* what a caller types after the command word: a decimal appid or a name
Args == { [kind |-> "appid", text |-> "10"], [kind |-> "appid", text |-> "20"],
          [kind |-> "name", text |-> "Portal"], [kind |-> "name", text |-> "Hades"] }

\* app_dict_subscribed of steamrmdremove_command: name -> appid of stored items
app_dict_subscribed(ml) ==
  [n \in {ml[k].name : k \in 1..Len(ml)} |->
     ml[CHOOSE k \in 1..Len(ml) :
          ml[k].name = n /\ \A h \in (k + 1)..Len(ml) : ml[h].name # n].appid]

\* the universes a caller may hand to the resolver: parts of the catalog
EmptyDict == <<>>
Universes ==
  { IF S = {} THEN EmptyDict ELSE [n \in S |-> app_dict_all[n]] :
      S \in SUBSET AppNames }

\* ------------------------------------------------------ durable documents
\* a JSON document on disk: readable and parsable (valid, with its data), not
\* parsable (corrupt: json.JSONDecodeError), absent (missing:
\* FileNotFoundError), or not readable as text (unreadable: PermissionError,
\* UnicodeDecodeError)
Valid(data) == [class |-> "valid", data |-> data]
Corrupt == [class |-> "corrupt"]
Missing == [class |-> "missing"]
Unreadable == [class |-> "unreadable"]

\* __init__, lines 32-38: a document that does not exist is created as {}
ensure_exists(doc, empty) == IF doc = Missing THEN Valid(empty) ELSE doc

\* a store left by an earlier run: one item with a recorded price and three
\* subscribers, one of each kind of address
StoredList ==
  << [appid |-> "10", name |-> "Portal", region |-> "cn", last_price |-> 3999,
      original_price |-> 5999, discount |-> 33,
      subscribers |-> <<OriginGroup, OriginGroupOnly, OriginFriend>>] >>

\* the catalog snapshot an earlier successful sync left on disk
OldSnapshot == [n \in {"Hades"} |-> 20]

\* ---------------------------------------------------------- catalog sync
\* the pages the GetAppList endpoint serves: the catalog in two pages
RemotePages ==
  << [apps |-> <<[name |-> "Portal", appid |-> 10]>>,
      have_more_results |-> TRUE, last_appid |-> 10],
     [apps |-> <<[name |-> "Hades", appid |-> 20]>>,
      have_more_results |-> FALSE, last_appid |-> 20] >>

\* the page a request with cursor last_appid is about
page_after(cursor) == IF cursor = 0 THEN RemotePages[1] ELSE RemotePages[2]

\* what one page request may come back with: a transport exception (also a
\* body that is not JSON), a status other than 200, a body without
\* "response", the page (with or without its last_appid), or a page without
\* entries
PageOutcomes(cursor) ==
  LET page == page_after(cursor) IN
  { [class |-> "exception"], [class |-> "status"], [class |-> "format"],
    [class |-> "ok", apps |-> page.apps,
     have_more_results |-> page.have_more_results, last_appid |-> page.last_appid],
    [class |-> "ok", apps |-> page.apps,
     have_more_results |-> page.have_more_results, last_appid |-> None],
    [class |-> "ok", apps |-> <<>>, have_more_results |-> FALSE, last_appid |-> None] }

AllPageOutcomes == PageOutcomes(0) \cup PageOutcomes(10)

\* get_app_list, lines 118-122: the cursor after a page that reports more
next_cursor(res) ==
  IF res.last_appid # None THEN res.last_appid
  ELSE IF res.apps # <<>> THEN res.apps[Len(res.apps)].appid ELSE 0

\* get_app_list, lines 128-130: name -> appid, a later entry of a name wins
dict_of(apps) ==
  IF apps = <<>> THEN EmptyDict
  ELSE [n \in {apps[k].name : k \in 1..Len(apps)} |->
          apps[CHOOSE k \in 1..Len(apps) :
                 apps[k].name = n /\ \A h \in (k + 1)..Len(apps) : apps[h].name # n].appid]

\* get_app_list, lines 127-153: what follows the page loop. After an
\* exception the catalog is {} and nothing is written; otherwise (also after
\* a `break`) the entries fetched so far are made the catalog and dumped.
\* Then an empty catalog is replaced by what the snapshot on disk holds.
finish_sync(raised, apps, disk) ==
  LET built == IF raised THEN EmptyDict ELSE dict_of(apps)
      written == IF raised THEN disk ELSE Valid(built)
      loaded == IF DOMAIN built = {} /\ written.class = "valid"
                THEN written.data ELSE built
  IN [json1 |-> written, app_dict_all |-> loaded]

\* ------------------------------------------------------- loading the store
\* load_user_monitors: FileNotFoundError and JSONDecodeError are caught, the
\* list becomes {} and {} is dumped; any other exception leaves the coroutine
load_user_monitors(doc) ==
  IF doc.class = "valid"
  THEN [raised |-> FALSE, monitor_list |-> doc.data, json2 |-> doc, end |-> "loaded"]
  ELSE IF doc.class \in {"missing", "corrupt"}
  THEN [raised |-> FALSE, monitor_list |-> <<>>, json2 |-> Valid(<<>>),
        end |-> "recovered"]
  ELSE [raised |-> TRUE, monitor_list |-> <<>>, json2 |-> doc, end |-> "raised"]

\* ------------------------------------------------------------------ state
VARIABLES
  file,          \* contents of monitor_list.json (ordered dict of items)
  lock,          \* holder of monitor_list_lock, or NoTask
  market,        \* what the price source holds for each game
  cmd,           \* per caller: the command handler it is running
  rnd,           \* per task: the run_monitor_prices round it is running
  listed,        \* keys shown by the last steamremind_list_all_command
  ncmds, nticks, nchanges,   \* counters that bound a behaviour
  epoch,         \* history: number of price changes of each game so far
  notified,      \* history: <<game, origin, epoch>> of the events yielded
  renotified,    \* history: those yielded more than once
  net,           \* history: subscribers per game by the commands alone
  emptied,       \* history: games whose last subscriber was removed
  overlap,       \* history: a command wrote the store during a round
  yielded,       \* history: <<address, mention targets>> of the events yielded
  \* start-up (initialize_data) and the tasks waiting for it
  json1,             \* game_list.json, the durable catalog snapshot
  json2,             \* monitor_list.json as a document on disk
  init_pc,           \* position of the initialize_data task
  last_appid,        \* get_app_list: cursor of the next page request
  all_apps,          \* get_app_list: entries accumulated so far
  app_dict_mem,      \* self.app_dict_all, the catalog in memory
  self_monitor_list, \* self.monitor_list as set by load_user_monitors and
                     \* by steamrmdremove_command
  data_initialized,  \* the asyncio.Event data_initialized
  boot,              \* per task: a handler that starts by awaiting the event
  snapshot0,         \* history: json1 when the sync started
  sync_end,          \* history: how get_app_list left its page loop
  load_end,          \* history: how load_user_monitors ended
  \* one call of the resolver and of the price client on given inputs
  query, universe, response,   \* the inputs
  resolved, price_data_out,    \* the results
  applied                      \* which of the two calls have returned

bootvars == <<json1, json2, init_pc, last_appid, all_apps, app_dict_mem,
              self_monitor_list, data_initialized, boot, snapshot0, sync_end,
              load_end>>

purevars == <<query, universe, response, resolved, price_data_out, applied>>

othervars == <<bootvars, purevars>>

mainvars == <<file, lock, market, cmd, rnd, listed, ncmds, nticks, nchanges,
              epoch, notified, renotified, net, emptied, overlap, yielded>>

vars == <<mainvars, othervars>>

NoTask == <<"none">>

IdleCmd == [pc |-> "idle", game_id |-> "", monitor_list |-> <<>>,
            reply |-> "", write |-> FALSE]

IdleRound == [pc |-> "idle", current_monitor_list |-> <<>>, i |-> 0, j |-> 0,
              first |-> FALSE, msg_components |-> <<>>, ep |-> 0, trace |-> <<>>]

\* a handler that starts with `await self.data_initialized.wait()`
IdleBoot == [pc |-> "idle", kind |-> "", read |-> Missing]

\* start-up is over: the sync fetched the catalog, the store was loaded
BootDone(store) ==
  /\ json1 = Valid(app_dict_all)
  /\ json2 = Valid(store)
  /\ init_pc = "done"
  /\ last_appid = 10
  /\ all_apps = RemotePages[1].apps \o RemotePages[2].apps
  /\ app_dict_mem = app_dict_all
  /\ self_monitor_list = [set |-> TRUE, data |-> store]
  /\ data_initialized = TRUE
  /\ boot = [t \in Tasks |-> IdleBoot]
  /\ snapshot0 = Valid(EmptyDict)
  /\ sync_end = "complete"
  /\ load_end = "loaded"

\* no call of the resolver or of the price client is being looked at
PureIdle ==
  /\ query = "" /\ universe = EmptyDict /\ response = [class |-> "absent"]
  /\ resolved = NotFound /\ price_data_out = NotAvailable
  /\ applied = {"resolve", "fetch"}

\* the plugin with the store `store` on disk and no task running
MainInit(store) ==
  /\ file = store
  /\ lock = NoTask
  /\ market = [g \in GameIds |-> IF g = "10" THEN PriceSale ELSE PriceFull]
  /\ cmd = [c \in Origins |-> IdleCmd]
  /\ rnd = [t \in Tasks |-> IdleRound]
  /\ listed = {}
  /\ nticks = 0 /\ nchanges = 0
  /\ epoch = [g \in GameIds |-> 0]
  /\ notified = {} /\ renotified = {}
  /\ net = [g \in GameIds |-> IF Has(store, g) THEN SeqSet(Get(store, g).subscribers)
                              ELSE {}]
  /\ emptied = [g \in GameIds |-> FALSE]
  /\ overlap = FALSE
  /\ yielded = {}

Init ==
  /\ MainInit(<<>>)
  /\ ncmds = 0
  /\ BootDone(<<>>)
  /\ PureIdle

\* variant: the exclusive section is entered without regard to the holder
LockFree_unchecked == TRUE

\* asyncio.Lock: `async with` enters only while nobody holds the lock
LockFree == lock = NoTask

RoundActive == \E t \in Tasks : rnd[t].pc # "idle"

\* ------------------------------------------------------- command handlers
\* steamremind_command / steamrmdremove_command: the game an argument names
\* in the catalog, <<game_id, game_name>> or NotFound
resolve_in_catalog(arg) ==
  IF arg.kind = "appid"
  THEN IF int(arg.text) \in DOMAIN app_dict_all_reverse
       THEN <<arg.text, app_dict_all_reverse[int(arg.text)]>>
       ELSE NotFound
  ELSE LET found == get_appid_by_name(arg.text, app_dict_all)
       IN IF found = NotFound THEN NotFound ELSE <<str(found[1]), found[2]>>

\* steamrmdremove_command with a name: the search among the stored items
resolve_in_subscribed(arg, ml) ==
  LET target_dict == app_dict_subscribed(ml)
      found == get_appid_by_name(arg.text, target_dict)
  IN IF found = NotFound THEN NotFound
     ELSE IF DOMAIN target_dict = {} THEN <<str(found[1]), found[2]>>
     ELSE found

\* variant: subscribing appends the address without looking for it
subscribe_update_append(monitor_list, game_id, game_name, origin) ==
  LET ml == IF Has(monitor_list, game_id) THEN monitor_list
            ELSE Append(monitor_list, NewItem(game_id, game_name))
      k == IndexOf(ml, game_id)
  IN [ml EXCEPT ![k].subscribers = Append(@, origin)]

\* steamremind_command: the update of the list it read
subscribe_update(monitor_list, game_id, game_name, origin) ==
  LET ml == IF Has(monitor_list, game_id) THEN monitor_list
            ELSE Append(monitor_list, NewItem(game_id, game_name))
      k == IndexOf(ml, game_id)
  IN IF origin \in SeqSet(ml[k].subscribers) THEN ml
     ELSE [ml EXCEPT ![k].subscribers = Append(@, origin)]

\* variant: unsubscribing keeps an item whose last subscriber left
unsubscribe_update_keep(monitor_list, game_id, origin) ==
  IF ~Has(monitor_list, game_id) THEN monitor_list
  ELSE LET k == IndexOf(monitor_list, game_id)
       IN IF origin \in SeqSet(monitor_list[k].subscribers)
          THEN [monitor_list EXCEPT ![k].subscribers = RemoveFirst(@, origin)]
          ELSE monitor_list

\* variant: unsubscribing a non-member drops the item
unsubscribe_update_drop(monitor_list, game_id, origin) ==
  IF ~Has(monitor_list, game_id) THEN monitor_list
  ELSE LET k == IndexOf(monitor_list, game_id)
           left == IF origin \in SeqSet(monitor_list[k].subscribers)
                   THEN RemoveFirst(monitor_list[k].subscribers, origin)
                   ELSE <<>>
       IN IF left = <<>> THEN Del(monitor_list, game_id)
          ELSE [monitor_list EXCEPT ![k].subscribers = left]

\* steamrmdremove_command: the update of the list it read
unsubscribe_update(monitor_list, game_id, origin) ==
  IF ~Has(monitor_list, game_id) THEN monitor_list
  ELSE LET k == IndexOf(monitor_list, game_id)
       IN IF origin \in SeqSet(monitor_list[k].subscribers)
          THEN LET left == RemoveFirst(monitor_list[k].subscribers, origin)
               IN IF left = <<>> THEN Del(monitor_list, game_id)
                  ELSE [monitor_list EXCEPT ![k].subscribers = left]
          ELSE monitor_list

\* steamremind_command up to its reply: resolve, take the lock, read the file,
\* update the list in memory; the handler is then suspended at its yield
SubscribeLock(c, arg) ==
  LET game == resolve_in_catalog(arg) IN
  /\ cmd[c].pc = "idle" /\ ncmds < MaxCmds
  /\ game # NotFound
  /\ LockFree
  /\ lock' = c
  /\ cmd' = [cmd EXCEPT ![c] =
       [pc |-> "sub_locked", game_id |-> game[1],
        monitor_list |-> subscribe_update(file, game[1], game[2], c),
        reply |-> IF Has(file, game[1]) /\ c \in SeqSet(Get(file, game[1]).subscribers)
                  THEN "already_subscribed" ELSE "subscribed",
        write |-> TRUE]]
  /\ ncmds' = ncmds + 1
  /\ UNCHANGED <<file, market, rnd, listed, nticks, nchanges, epoch, notified,
                 renotified, net, emptied, overlap>>
  /\ UNCHANGED <<yielded, othervars>>

\* steamremind_command after its reply: dump the list, leave the lock
SubscribeCommit(c) ==
  /\ cmd[c].pc = "sub_locked"
  /\ file' = cmd[c].monitor_list
  /\ lock' = NoTask
  /\ cmd' = [cmd EXCEPT ![c] = [IdleCmd EXCEPT !.pc = "round_pending"]]
  /\ net' = [net EXCEPT ![cmd[c].game_id] = @ \cup {c}]
  /\ emptied' = [emptied EXCEPT ![cmd[c].game_id] = FALSE]
  /\ overlap' = (overlap \/ RoundActive)
  /\ UNCHANGED <<market, rnd, listed, ncmds, nticks, nchanges, epoch, notified,
                 renotified>>
  /\ UNCHANGED <<yielded, othervars>>

\* steamrmdremove_command up to the search result
UnsubscribeResolve(c, arg) ==
  LET game == IF arg.kind = "appid" THEN resolve_in_catalog(arg)
              ELSE resolve_in_subscribed(arg, file) IN
  /\ cmd[c].pc = "idle" /\ ncmds < MaxCmds
  /\ arg.kind = "name" => LockFree
  /\ game # NotFound
  /\ cmd' = [cmd EXCEPT ![c] = [IdleCmd EXCEPT !.pc = "unsub_resolved",
                                               !.game_id = game[1]]]
  /\ ncmds' = ncmds + 1
  /\ UNCHANGED <<file, lock, market, rnd, listed, nticks, nchanges, epoch,
                 notified, renotified, net, emptied, overlap>>
  /\ UNCHANGED <<yielded, othervars>>

\* steamrmdremove_command up to its reply, inside the lock
UnsubscribeLock(c) ==
  LET game_id == cmd[c].game_id
      has == Has(file, game_id)
      found_and_removed == has /\ c \in SeqSet(Get(file, game_id).subscribers)
      monitor_list == unsubscribe_update(file, game_id, c) IN
  /\ cmd[c].pc = "unsub_resolved"
  /\ LockFree
  /\ lock' = c
  /\ cmd' = [cmd EXCEPT ![c] =
       [pc |-> "unsub_locked", game_id |-> game_id, monitor_list |-> monitor_list,
        reply |-> IF ~has THEN "game_not_subscribed"
                  ELSE IF found_and_removed THEN "removed" ELSE "not_subscribed",
        write |-> has]]
  /\ UNCHANGED <<file, market, rnd, listed, ncmds, nticks, nchanges, epoch,
                 notified, renotified, net, emptied, overlap>>
  /\ UNCHANGED <<yielded, othervars>>

\* steamrmdremove_command after its reply: dump the list, leave the lock and
\* refresh self.monitor_list (line 612), unless it returned on a game that is
\* not stored
UnsubscribeCommit(c) ==
  /\ cmd[c].pc = "unsub_locked"
  /\ file' = IF cmd[c].write THEN cmd[c].monitor_list ELSE file
  /\ lock' = NoTask
  /\ cmd' = [cmd EXCEPT ![c] = IdleCmd]
  /\ net' = [net EXCEPT ![cmd[c].game_id] = @ \ {c}]
  /\ emptied' = [emptied EXCEPT ![cmd[c].game_id] =
                   @ \/ (cmd[c].reply = "removed"
                         /\ ~Has(cmd[c].monitor_list, cmd[c].game_id))]
  /\ overlap' = (overlap \/ (cmd[c].write /\ RoundActive))
  /\ self_monitor_list' = IF cmd[c].write
                          THEN [set |-> TRUE, data |-> cmd[c].monitor_list]
                          ELSE self_monitor_list
  /\ UNCHANGED <<market, rnd, listed, ncmds, nticks, nchanges, epoch, notified,
                 renotified>>
  /\ UNCHANGED <<json1, json2, init_pc, last_appid, all_apps, app_dict_mem,
                 data_initialized, boot, snapshot0, sync_end, load_end>>
  /\ UNCHANGED <<yielded, purevars>>

\* steamremind_list_all_command: read the file inside the lock
ListAll(c) ==
  /\ cmd[c].pc = "idle"
  /\ LockFree
  /\ listed' = Keys(file)
  /\ UNCHANGED <<file, lock, market, cmd, rnd, ncmds, nticks, nchanges, epoch,
                 notified, renotified, net, emptied, overlap>>
  /\ UNCHANGED <<yielded, othervars>>

\* ------------------------------------------------------------ the round
\* variant: the diff is taken without the first-record check
item_outcome_no_first(game_info, price_data) ==
  IF price_data = NotAvailable THEN "skip"
  ELSE IF price_data.current_price - game_info.last_price # 0 THEN "changed"
  ELSE "unchanged"

\* variant: a free game is always taken as a change
item_outcome_free_changes(game_info, price_data) ==
  IF price_data = NotAvailable THEN "skip"
  ELSE IF game_info.last_price = None THEN "first"
  ELSE IF price_data.is_free \/ price_data.current_price - game_info.last_price # 0
  THEN "changed"
  ELSE "unchanged"

\* monitor_prices, lines 301-327: what one item's fetch leads to
item_outcome(game_info, price_data) ==
  IF price_data = NotAvailable THEN "skip"
  ELSE IF game_info.last_price = None THEN "first"
  ELSE IF price_data.current_price - game_info.last_price # 0 THEN "changed"
  ELSE "unchanged"

\* monitor_prices, lines 330-351: the headline of a change
change_kind(price_data, price_change) ==
  IF price_data.is_free THEN "free"
  ELSE IF price_change > 0 THEN "increase"
  ELSE "decrease"

\* monitor_prices, lines 330-362: the message of a change
build_msg_components(game_info, price_data) ==
  LET price_change == price_data.current_price - game_info.last_price
      kind == change_kind(price_data, price_change) IN
  << [type |-> "Plain", part |-> kind, name |-> game_info.name,
      amount |-> IF kind = "free" THEN 0
                 ELSE IF kind = "increase" THEN price_change ELSE -price_change],
     [type |-> "Plain", part |-> "prices", last_price |-> game_info.last_price,
      current_price |-> price_data.current_price,
      original_price |-> price_data.original_price,
      discount |-> price_data.discount],
     [type |-> "Plain", part |-> "link", appid |-> game_info.appid] >>

\* monitor_prices, lines 309-315 and 365-371: the snapshot written to an item
with_snapshot(game_info, price_data) ==
  [game_info EXCEPT !.last_price = price_data.current_price,
                    !.original_price = price_data.original_price,
                    !.discount = price_data.discount]

\* variant: whoever has a user-identifier is mentioned
at_members_of_user(parsed_origin) ==
  IF parsed_origin.user_id # <<>> THEN <<parsed_origin.user_id>> ELSE <<>>

\* monitor_prices, lines 382-393: the mention targets of an event
at_members_of(parsed_origin) ==
  IF parsed_origin.message_type = "GroupMessage" /\ parsed_origin.user_id # <<>>
  THEN <<parsed_origin.user_id>>
  ELSE <<>>

\* run_monitor_prices, lines 415-419: the At components appended to the list
with_mentions(parsed_origin, at_members, msg_components) ==
  IF parsed_origin.message_type = "GroupMessage"
  THEN msg_components \o [k \in 1..Len(at_members) |->
                            [type |-> "At", qq |-> at_members[k]]]
  ELSE msg_components

\* the for loop of monitor_prices moves on; past the last item the generator
\* ends and run_monitor_prices returns
next_item(r) ==
  IF r.i < Len(r.current_monitor_list)
  THEN [r EXCEPT !.pc = "fetch", !.i = r.i + 1, !.j = 0, !.first = FALSE,
                 !.msg_components = <<>>, !.ep = 0]
  ELSE IdleRound

\* variant: a fetch that gave no price ends the round
on_not_available_return(r) == IdleRound

\* monitor_prices, lines 301-305: `continue` after a fetch that gave no price
on_not_available(r) == next_item(r)

\* the round of task t becomes r; a command handler whose round is over returns
SetRound(t, r) ==
  /\ rnd' = [rnd EXCEPT ![t] = r]
  /\ cmd' = IF t \in Origins
            THEN [cmd EXCEPT ![t] = IF r.pc = "idle" THEN IdleCmd
                                    ELSE [IdleCmd EXCEPT !.pc = "round"]]
            ELSE cmd

\* run_monitor_prices and monitor_prices up to the first fetch: read the file
\* inside the lock
start_round(t) ==
  /\ LockFree
  /\ SetRound(t, IF file = <<>> THEN IdleRound
                 ELSE [IdleRound EXCEPT !.pc = "fetch",
                                        !.current_monitor_list = file, !.i = 1])
  /\ UNCHANGED <<file, lock, market, listed, nchanges, epoch, notified,
                 renotified, net, emptied, overlap>>
  /\ UNCHANGED <<yielded, othervars>>

\* the scheduler job (interval trigger, one instance at a time)
Tick ==
  /\ rnd[Sched].pc = "idle" /\ nticks < MaxTicks
  /\ nticks' = nticks + 1
  /\ start_round(Sched)
  /\ UNCHANGED ncmds

\* steamremind_test_command: a round on demand
Refresh(c) ==
  /\ cmd[c].pc = "idle" /\ ncmds < MaxCmds
  /\ ncmds' = ncmds + 1
  /\ start_round(c)
  /\ UNCHANGED nticks

\* steamremind_command, line 523: the round after a subscribe
SubscribeRound(c) ==
  /\ cmd[c].pc = "round_pending"
  /\ start_round(c)
  /\ UNCHANGED <<ncmds, nticks>>

\* monitor_prices, lines 295-371: fetch one item's price and diff it
RoundFetch(t, res) ==
  LET r == rnd[t]
      game_info == r.current_monitor_list[r.i]
      price_data == get_steam_price(res)
      outcome == item_outcome(game_info, price_data)
      seen == [r EXCEPT !.trace = Append(@, outcome)] IN
  /\ r.pc = "fetch"
  /\ res \in Responses(market[game_info.appid])
  /\ SetRound(t,
       IF outcome = "skip" THEN on_not_available(seen)
       ELSE IF outcome = "unchanged" THEN next_item(seen)
       ELSE [seen EXCEPT !.pc = "write",
                         !.first = (outcome = "first"),
                         !.current_monitor_list[r.i] = with_snapshot(game_info, price_data),
                         !.msg_components = IF outcome = "first" THEN <<>>
                                            ELSE build_msg_components(game_info, price_data),
                         !.ep = epoch[game_info.appid]])
  /\ UNCHANGED <<file, lock, market, listed, ncmds, nticks, nchanges, epoch,
                 notified, renotified, net, emptied, overlap>>
  /\ UNCHANGED <<yielded, othervars>>

\* monitor_prices, lines 316-318 and 374-376: dump the round's list inside the lock
RoundWrite(t) ==
  LET r == rnd[t]
      game_info == r.current_monitor_list[r.i] IN
  /\ r.pc = "write"
  /\ LockFree
  /\ file' = r.current_monitor_list
  /\ SetRound(t, IF r.first \/ game_info.subscribers = <<>> THEN next_item(r)
                 ELSE [r EXCEPT !.pc = "notify", !.j = 1])
  /\ UNCHANGED <<lock, market, listed, ncmds, nticks, nchanges, epoch, notified,
                 renotified, net, emptied, overlap>>
  /\ UNCHANGED <<yielded, othervars>>

\* monitor_prices, lines 379-393, and run_monitor_prices, lines 405-443: yield
\* the event of one subscriber and send it; an exception ends the round
RoundNotify(t, delivered) ==
  LET r == rnd[t]
      game_info == r.current_monitor_list[r.i]
      subscriber_origin == game_info.subscribers[r.j]
      parsed_origin == parse_unified_origin(subscriber_origin)
      yields == parsed_origin.ok
                /\ parsed_origin.message_type \in {"FriendMessage", "GroupMessage"}
      event == <<game_info.appid, subscriber_origin, r.ep>>
      sent == [r EXCEPT !.msg_components =
                 with_mentions(parsed_origin, at_members_of(parsed_origin), @)] IN
  /\ r.pc = "notify"
  /\ notified' = IF yields THEN notified \cup {event} ELSE notified
  /\ renotified' = IF yields /\ event \in notified THEN renotified \cup {event}
                   ELSE renotified
  /\ yielded' = IF yields
                THEN yielded \cup {<<subscriber_origin, at_members_of(parsed_origin)>>}
                ELSE yielded
  /\ SetRound(t,
       IF ~parsed_origin.ok \/ (yields /\ ~delivered) THEN IdleRound
       ELSE LET after == IF yields THEN sent ELSE r
            IN IF r.j < Len(game_info.subscribers) THEN [after EXCEPT !.j = r.j + 1]
               ELSE next_item(after))
  /\ UNCHANGED <<file, lock, market, listed, ncmds, nticks, nchanges, epoch, net,
                 emptied, overlap>>
  /\ UNCHANGED othervars

\* the price source changes what it holds for a game
PriceChange(g, m) ==
  /\ nchanges < MaxChanges
  /\ m \in MarketStates /\ m # market[g]
  /\ market' = [market EXCEPT ![g] = m]
  /\ epoch' = [epoch EXCEPT ![g] = @ + 1]
  /\ nchanges' = nchanges + 1
  /\ UNCHANGED <<file, lock, cmd, rnd, listed, ncmds, nticks, notified,
                 renotified, net, emptied, overlap>>
  /\ UNCHANGED <<yielded, othervars>>

Next ==
  \/ \E c \in Origins, arg \in Args : SubscribeLock(c, arg)
  \/ \E c \in Origins : SubscribeCommit(c)
  \/ \E c \in Origins : SubscribeRound(c)
  \/ \E c \in Origins, arg \in Args : UnsubscribeResolve(c, arg)
  \/ \E c \in Origins : UnsubscribeLock(c)
  \/ \E c \in Origins : UnsubscribeCommit(c)
  \/ \E c \in Origins : ListAll(c)
  \/ \E c \in Origins : Refresh(c)
  \/ Tick
  \/ \E t \in Tasks, res \in AllResponses : RoundFetch(t, res)
  \/ \E t \in Tasks : RoundWrite(t)
  \/ \E t \in Tasks, delivered \in BOOLEAN : RoundNotify(t, delivered)
  \/ \E g \in GameIds, m \in MarketStates : PriceChange(g, m)

Spec == Init /\ [][Next]_vars

\* ------------------------------------------- a store left by an earlier run
\* the plugin starts on the store StoredList; the command that stored the item
\* counts among the commands of the behaviour
InitStored ==
  /\ MainInit(StoredList)
  /\ ncmds = 1
  /\ BootDone(StoredList)
  /\ PureIdle

SpecStored == InitStored /\ [][Next]_vars

\* a store written by an earlier run of the plugin: one polled item with one
\* of the two callers as its subscriber
SharedList ==
  << [StoredList[1] EXCEPT !.subscribers = <<OriginFriend>>] >>

\* the plugin starts on the store SharedList and all MaxCmds commands are still
\* to come, so that an unsubscribe which removes a subscriber can meet a
\* command of the other caller on the same item
InitShared ==
  /\ MainInit(SharedList)
  /\ ncmds = 0
  /\ BootDone(SharedList)
  /\ PureIdle

SpecShared == InitShared /\ [][Next]_vars

\* ---------------------------------------------------------------- start-up
\* variant: a handler goes on without looking at the event
is_set_unchecked == TRUE

\* asyncio.Event: wait() returns once the event is set
is_set == data_initialized

\* the handlers a caller can invoke; each starts by awaiting the event
CommandKinds == {"steamremind_command", "steamrmdremove_command",
                 "steamremind_test_command", "steamremind_list_all_command"}

\* what is on disk when the plugin is constructed
DiskCatalogs == {Missing, Corrupt, Valid(EmptyDict), Valid(OldSnapshot)}
DiskStores == {Missing, Corrupt, Unreadable, Valid(<<>>), Valid(StoredList)}

\* the state after __init__: both documents exist, initialize_data is about
\* to request the first page
InitCold ==
  /\ MainInit(<<>>)
  /\ ncmds = 0
  /\ PureIdle
  /\ \E d \in DiskCatalogs : json1 = ensure_exists(d, EmptyDict)
  /\ \E d \in DiskStores : json2 = ensure_exists(d, <<>>)
  /\ init_pc = "sync"
  /\ last_appid = 0
  /\ all_apps = <<>>
  /\ app_dict_mem = EmptyDict
  /\ self_monitor_list = [set |-> FALSE, data |-> <<>>]
  /\ data_initialized = FALSE
  /\ boot = [t \in Tasks |-> IdleBoot]
  /\ snapshot0 = json1
  /\ sync_end = "none"
  /\ load_end = "none"

\* get_app_list, lines 91-125: one page request and what the loop does with it
SyncPage(res) ==
  /\ init_pc = "sync"
  /\ res \in PageOutcomes(last_appid)
  /\ IF res.class = "ok"
     THEN /\ all_apps' = all_apps \o res.apps
          /\ IF res.have_more_results
             THEN /\ last_appid' = next_cursor(res)
                  /\ UNCHANGED <<init_pc, sync_end>>
             ELSE /\ init_pc' = "process" /\ sync_end' = "complete"
                  /\ UNCHANGED last_appid
     ELSE /\ init_pc' = "process" /\ sync_end' = res.class
          /\ UNCHANGED <<all_apps, last_appid>>
  /\ UNCHANGED <<json1, json2, app_dict_mem, self_monitor_list, data_initialized,
                 boot, snapshot0, load_end>>
  /\ UNCHANGED <<mainvars, purevars>>

\* get_app_list, lines 127-153: build the catalog, dump it, fall back
SyncFinish ==
  LET done == finish_sync(sync_end = "exception", all_apps, json1) IN
  /\ init_pc = "process"
  /\ json1' = done.json1
  /\ app_dict_mem' = done.app_dict_all
  /\ init_pc' = "load"
  /\ UNCHANGED <<json2, last_appid, all_apps, self_monitor_list, data_initialized,
                 boot, snapshot0, sync_end, load_end>>
  /\ UNCHANGED <<mainvars, purevars>>

\* initialize_data, line 64: load_user_monitors; an exception it does not
\* catch ends the initialize_data task
Load ==
  LET got == load_user_monitors(json2) IN
  /\ init_pc = "load"
  /\ json2' = got.json2
  /\ self_monitor_list' = IF got.raised THEN self_monitor_list
                          ELSE [set |-> TRUE, data |-> got.monitor_list]
  /\ load_end' = got.end
  /\ init_pc' = IF got.raised THEN "failed" ELSE "set"
  /\ UNCHANGED <<json1, last_appid, all_apps, app_dict_mem, data_initialized, boot,
                 snapshot0, sync_end>>
  /\ UNCHANGED <<mainvars, purevars>>

\* initialize_data, line 65: data_initialized.set()
SetInitialized ==
  /\ init_pc = "set"
  /\ data_initialized' = TRUE
  /\ init_pc' = "done"
  /\ UNCHANGED <<json1, json2, last_appid, all_apps, app_dict_mem, self_monitor_list,
                 boot, snapshot0, sync_end, load_end>>
  /\ UNCHANGED <<mainvars, purevars>>

\* the store document is removed from the disk while the sync is running
DocumentLost ==
  /\ init_pc \in {"sync", "process"}
  /\ json2.class = "valid"
  /\ json2' = Missing
  /\ UNCHANGED <<json1, init_pc, last_appid, all_apps, app_dict_mem,
                 self_monitor_list, data_initialized, boot, snapshot0, sync_end,
                 load_end>>
  /\ UNCHANGED <<mainvars, purevars>>

\* a command arrives, or the scheduler job fires: the handler is entered and
\* awaits the event
Invoke(t, kind) ==
  /\ boot[t].pc = "idle"
  /\ kind \in (IF t = Sched THEN {"run_monitor_prices"} ELSE CommandKinds)
  /\ boot' = [boot EXCEPT ![t] = [IdleBoot EXCEPT !.pc = "wait", !.kind = kind]]
  /\ UNCHANGED <<json1, json2, init_pc, last_appid, all_apps, app_dict_mem,
                 self_monitor_list, data_initialized, snapshot0, sync_end, load_end>>
  /\ UNCHANGED <<mainvars, purevars>>

\* the handler is past its wait: a command handler returns with an error reply
\* when the catalog is empty; otherwise the handler goes on to resolve, to
\* read the store or to poll (here: it reads the store document)
Proceed(t) ==
  /\ boot[t].pc = "wait"
  /\ is_set
  /\ boot' = [boot EXCEPT ![t] =
       IF boot[t].kind # "run_monitor_prices" /\ DOMAIN app_dict_mem = {}
       THEN [@ EXCEPT !.pc = "refused"]
       ELSE [@ EXCEPT !.pc = "proceeded", !.read = json2]]
  /\ UNCHANGED <<json1, json2, init_pc, last_appid, all_apps, app_dict_mem,
                 self_monitor_list, data_initialized, snapshot0, sync_end, load_end>>
  /\ UNCHANGED <<mainvars, purevars>>

NextCold ==
  \/ \E res \in AllPageOutcomes : SyncPage(res)
  \/ SyncFinish
  \/ Load
  \/ SetInitialized
  \/ DocumentLost
  \/ \E t \in Tasks, kind \in CommandKinds \cup {"run_monitor_prices"} : Invoke(t, kind)
  \/ \E t \in Tasks : Proceed(t)

SpecCold == InitCold /\ [][NextCold]_vars

\* start-up under the event loop's scheduling: a coroutine that can take its
\* next step takes it (every request is answered, every waiter of a set event
\* is resumed); commands and scheduler ticks need not arrive
FairCold ==
  /\ WF_vars(\E res \in AllPageOutcomes : SyncPage(res))
  /\ WF_vars(SyncFinish)
  /\ WF_vars(Load)
  /\ WF_vars(SetInitialized)
  /\ \A t \in Tasks : WF_vars(Proceed(t))

SpecColdFair == InitCold /\ [][NextCold]_vars /\ FairCold

\* ------------------------------- one call of the resolver and the price client
\* the inputs of the two calls are drawn; start-up is over
InitPure ==
  /\ MainInit(<<>>)
  /\ ncmds = 0
  /\ BootDone(<<>>)
  /\ query \in Queries
  /\ universe \in Universes
  /\ response \in AllResponses
  /\ resolved = NotFound
  /\ price_data_out = NotAvailable
  /\ applied = {}

\* get_appid_by_name(query, universe) returns
ApplyResolve ==
  /\ "resolve" \notin applied
  /\ resolved' = get_appid_by_name(query, universe)
  /\ applied' = applied \cup {"resolve"}
  /\ UNCHANGED <<query, universe, response, price_data_out>>
  /\ UNCHANGED <<mainvars, bootvars>>

\* get_steam_price returns for a request answered by `response`
ApplyFetch ==
  /\ "fetch" \notin applied
  /\ price_data_out' = get_steam_price(response)
  /\ applied' = applied \cup {"fetch"}
  /\ UNCHANGED <<query, universe, response, resolved>>
  /\ UNCHANGED <<mainvars, bootvars>>

NextPure == ApplyResolve \/ ApplyFetch

SpecPure == InitPure /\ [][NextPure]_vars

\* ------------------------------------------------------------- claims
\* the subscriber set the store holds for a game (empty when not stored)
SubscribersOf(ml, g) == IF Has(ml, g) THEN SeqSet(Get(ml, g).subscribers) ELSE {}

\* C1: one change of the source price yields exactly one notification event
\* per subscriber of the item: no event <<game, subscriber, change>> is
\* yielded a second time, whatever rounds and commands interleave.
C1_NotifiedOncePerChange ==
  \A g \in GameIds, o \in Origins, e \in 0..MaxChanges : <<g, o, e>> \notin renotified

\* C2: a subscribe or unsubscribe that completes while a round is in progress
\* is not lost: once every round has finished, the store holds for every game
\* exactly the subscribers the completed commands leave.
C2_CommandSurvivesRound ==
  ~RoundActive => \A g \in GameIds : SubscribersOf(file, g) = net[g]

\* C3: subscribe and unsubscribe commands of different callers never lose an
\* update: as long as no command wrote the store during a round, the store
\* holds for every game the net effect of the commands in the order in which
\* they held the lock.
C3_NoLostUpdate ==
  ~overlap => \A g \in GameIds : SubscribersOf(file, g) = net[g]

\* C3 witness: two commands of different callers on one game are in flight,
\* no round interfering: one caller's subscribe holds the lock and has added
\* itself to the list it read, while the unsubscribe of the other caller, a
\* subscriber of the game, waits for the lock
C3_Witness ==
  /\ ~overlap
  /\ cmd[OriginGroup].pc = "sub_locked" /\ cmd[OriginGroup].game_id = "10"
  /\ cmd[OriginGroup].reply = "subscribed"
  /\ cmd[OriginFriend].pc = "unsub_resolved" /\ cmd[OriginFriend].game_id = "10"
  /\ SubscribersOf(file, "10") = {OriginFriend}
  /\ net["10"] = {OriginFriend}

\* the price snapshot a successful fetch of game g yields in this state
Fetched(g) == get_steam_price([class |-> "ok", data |-> market[g]])

\* C4: the first successful poll of an item whose last_price is uninitialized
\* emits no notification, whatever price is fetched: it is marked as a first
\* record, its write stores the fetched price, original price and discount,
\* and the round moves on without yielding an event.
C4_FirstPollSilent ==
  [][\A t \in Tasks :
       LET r == rnd[t]
           game_info == r.current_monitor_list[r.i] IN
       /\ (r.pc = "fetch" /\ game_info.last_price = None /\ rnd'[t].pc = "write")
            => /\ rnd'[t].first
               /\ rnd'[t].current_monitor_list[r.i] =
                    with_snapshot(game_info, Fetched(game_info.appid))
               /\ notified' = notified
       /\ (r.pc = "write" /\ r.first /\ rnd'[t] # r)
            => /\ rnd'[t].pc # "notify"
               /\ notified' = notified
               /\ Get(file', game_info.appid) = game_info
               /\ game_info.last_price # None
       /\ (rnd'[t].pc = "notify") => ~rnd'[t].first
    ]_vars

\* C4 witness: a round has fetched the first price of a new item
C4_Witness ==
  \E t \in Tasks : rnd[t].pc = "write" /\ rnd[t].first

\* C5: when a round finds a non-zero delta for an item with a stored
\* last_price, the event is classified free / increase / decrease, the
\* persisted last_price becomes the fetched price, and by the time the round
\* leaves the item every subscriber address on it has been sent one event.
C5_ChangeNotifiesEverySubscriber ==
  [][\A t \in Tasks :
       LET r == rnd[t]
           game_info == r.current_monitor_list[r.i]
           head == r.msg_components[1]
           prices == r.msg_components[2] IN
       /\ (r.pc = "write" /\ ~r.first /\ rnd'[t] # r)
            => /\ Get(file', game_info.appid).last_price = prices.current_price
               /\ head.part = (IF prices.current_price = 0 /\ game_info.discount = 100
                               THEN "free"
                               ELSE IF prices.current_price > prices.last_price
                               THEN "increase" ELSE "decrease")
       /\ (r.pc = "notify" /\ rnd'[t] # r
           /\ (rnd'[t].pc # "notify" \/ rnd'[t].i # r.i))
            => \A o \in SeqSet(game_info.subscribers) :
                 <<game_info.appid, o, r.ep>> \in notified'
    ]_vars

\* C6: once an unsubscribe has emptied an item's subscriber set, no later
\* steamremind_list_all_command shows the item until a subscribe re-creates
\* it, also while rounds run.
C6_EmptiedItemNotListed ==
  [][\A g \in GameIds : (listed' # listed /\ emptied[g]) => g \notin listed']_vars

\* C7: in every state of the persisted store no item has an empty subscriber
\* list.
C7_NoItemWithoutSubscribers ==
  \A k \in 1..Len(file) : file[k].subscribers # <<>>

\* C7 witness: an unsubscribe removed the last subscriber of an item and the
\* item is gone from the store
C7_Witness ==
  \E g \in GameIds : emptied[g] /\ ~Has(file, g)

\* C8: commands on one (identifier, address) executed one after another leave
\* the address in the item's subscriber list exactly when the operations
\* applied in order say so, and never twice: subscribing a member and
\* unsubscribing a non-member change nothing.
C8_MembershipFollowsOperations ==
  ~overlap =>
    \A g \in GameIds, o \in Origins :
      LET n == IF Has(file, g) THEN Count(Get(file, g).subscribers, o) ELSE 0
      IN n = (IF o \in net[g] THEN 1 ELSE 0)

\* C8 witness: a subscribe of an address that is already a member has been
\* answered, and the list it is about to write holds the address once
C8_Witness ==
  \E c \in Origins :
    /\ ~overlap
    /\ cmd[c].pc = "sub_locked" /\ cmd[c].reply = "already_subscribed"
    /\ Count(Get(cmd[c].monitor_list, cmd[c].game_id).subscribers, c) = 1

\* C9: a fetch that gives no price for one item of a round does not end the
\* round, emits no notification and writes nothing: the round goes on to the
\* next item with the list it read unchanged.
C9_FetchFailureSkipsItem ==
  [][\A t \in Tasks, res \in AllResponses :
       (rnd[t].pc = "fetch" /\ rnd'[t] # rnd[t]
        /\ get_steam_price(res) = NotAvailable /\ RoundFetch(t, res))
         => /\ file' = file
            /\ notified' = notified
            /\ IF rnd[t].i < Len(rnd[t].current_monitor_list)
               THEN /\ rnd'[t].pc = "fetch"
                    /\ rnd'[t].i = rnd[t].i + 1
                    /\ rnd'[t].current_monitor_list = rnd[t].current_monitor_list
               ELSE rnd'[t].pc = "idle"
    ]_vars

\* C9 witness: in a round over two items the fetch of the first gave no
\* price and the second has been fetched and is about to be written
C9_Witness ==
  \E t \in Tasks :
    /\ Len(rnd[t].current_monitor_list) = 2
    /\ rnd[t].i = 2 /\ rnd[t].pc = "write"
    /\ rnd[t].trace[1] = "skip"
    /\ Get(file, rnd[t].current_monitor_list[1].appid) = rnd[t].current_monitor_list[1]

\* C10: an exception while one item is processed (here: a failing dispatch of
\* its notification) is isolated to that item: a round never ends before its
\* last item.
C10_RoundReachesLastItem ==
  [][\A t \in Tasks :
       (rnd[t].pc # "idle" /\ rnd'[t].pc = "idle")
         => rnd[t].i = Len(rnd[t].current_monitor_list)
    ]_vars

\* C11: when the fetched current_price equals the last_price the round read
\* for the item (delta = 0, also last_price = 0 with a free game), the round
\* yields no event, does not write the store and goes on with its list as it
\* was: last_price, original_price and discount stay as they were.
C11_NoChangeNoEffect ==
  [][\A t \in Tasks :
       LET r == rnd[t]
           game_info == r.current_monitor_list[r.i] IN
       (r.pc = "fetch" /\ rnd'[t] # r
        /\ Fetched(game_info.appid).current_price = game_info.last_price)
         => /\ file' = file
            /\ notified' = notified
            /\ rnd'[t].pc \in {"fetch", "idle"}
            /\ rnd'[t].pc = "fetch" =>
                 rnd'[t].current_monitor_list = r.current_monitor_list
    ]_vars

\* C11 witness: a round fetched a free game whose stored last_price is 0, found
\* it unchanged and is at its next item
C11_Witness ==
  \E t \in Tasks :
    /\ rnd[t].i = 2 /\ rnd[t].trace[1] = "unchanged"
    /\ rnd[t].current_monitor_list[1].last_price = 0
    /\ market[rnd[t].current_monitor_list[1].appid].is_free
    /\ Get(file, rnd[t].current_monitor_list[1].appid).last_price = 0

\* C12: no handler is past its wait (to resolve, to access the store or to
\* poll) before the initialization-complete event is set, and the event is
\* set only after the catalog sync has ended (completely or by its fallback)
\* and the subscription store has been loaded.
C12_ColdStartGuard ==
  /\ \A t \in Tasks : boot[t].pc \in {"proceeded", "refused"} => data_initialized
  /\ data_initialized =>
       /\ sync_end # "none" /\ init_pc = "done"
       /\ self_monitor_list.set /\ load_end \in {"loaded", "recovered"}

\* C12 witness: after a sync that ended by an exception and fell back to the
\* snapshot, the scheduler job and a command have gone on past their wait
C12_Witness ==
  /\ boot[Sched].pc = "proceeded"
  /\ \E c \in Origins : boot[c].pc = "proceeded"
  /\ sync_end = "exception"

\* C13: when a sync fails (transport exception, status other than 200,
\* malformed response) or yields no entries, and a non-empty snapshot of an
\* earlier sync is on disk, the catalog in memory after the sync is that
\* snapshot.
C13_FallbackToSnapshot ==
  ( /\ init_pc \notin {"sync", "process"}
    /\ snapshot0.class = "valid" /\ DOMAIN snapshot0.data # {}
    /\ (sync_end \in {"exception", "status", "format"} \/ all_apps = <<>>) )
  => app_dict_mem = snapshot0.data

\* C14: the catalog snapshot on disk is replaced only by a sync that fetched
\* every page; a sync that met a transport or format error leaves it as it was
\* when the sync started.
C14_SnapshotOnlyOnSuccess ==
  /\ json1 # snapshot0 => sync_end = "complete"
  /\ sync_end \in {"exception", "status", "format"} => json1 = snapshot0

\* C15: every event a round yields has no mention target for a direct address,
\* exactly the user-identifier for a group address that carries one, and none
\* for a group address without a user-identifier.
C15_MentionTargets ==
  \A e \in yielded :
    LET origin == e[1]
        at_members == e[2] IN
    IF origin[2] = "GroupMessage" /\ Len(origin[3]) = 2
    THEN at_members = << <<origin[3][1]>> >>
    ELSE at_members = <<>>

\* C15 witness: events for a direct address, a group address with a user and a
\* group address without one have been yielded
C15_Witness ==
  {e[1] : e \in yielded} = {OriginFriend, OriginGroup, OriginGroupOnly}

\* C16: get_appid_by_name(query, universe) returns not-found or a pair
\* (universe[name], name) with name a key of the universe it was given and a
\* score of at least 70; for an empty universe it returns not-found.
C16_ResolveWithinUniverse ==
  "resolve" \in applied =>
    \/ resolved = NotFound
    \/ /\ resolved[2] \in DOMAIN universe
       /\ resolved[1] = universe[resolved[2]]
       /\ token_set_ratio(query, resolved[2]) >= MinScore

\* C17: get_steam_price maps every response class to one outcome and raises
\* for none: exception, absent entry and unsuccessful response give
\* not-available; a free game gives current = original = 0, discount 100,
\* currency "FREE"; a response without price_overview gives not-available;
\* any other gives the final and initial numbers divided by 100.
C17_FetchPriceOutcomes ==
  "fetch" \in applied =>
    IF response.class \in {"exception", "absent", "unsuccessful"}
    THEN price_data_out = NotAvailable
    ELSE IF response.class = "ok" /\ response.data.is_free
    THEN price_data_out = [is_free |-> TRUE, current_price |-> 0,
                           original_price |-> 0, discount |-> 100,
                           currency |-> "FREE"]
    ELSE IF response.class = "no_price_overview"
    THEN price_data_out = NotAvailable
    ELSE /\ price_data_out # NotAvailable
         /\ ~price_data_out.is_free
         /\ price_data_out.current_price * 100 = fixed(response.data.final)
         /\ price_data_out.original_price * 100 = fixed(response.data.initial)
         /\ price_data_out.discount = response.data.discount_percent

\* C17 witness: the call returned for a response of a free game
C17_Witness ==
  /\ "fetch" \in applied
  /\ response.class = "ok" /\ response.data.is_free
  /\ price_data_out.currency = "FREE"

\* C18: load_user_monitors never raises: on a document that is missing or
\* corrupt (not parsable, or not readable as text) the list in memory is
\* empty, an empty valid document is on disk, and loading that document again
\* succeeds with the empty store.
C18_LoadRecovers ==
  [][(init_pc = "load" /\ init_pc' # "load" /\ json2.class # "valid")
       => /\ init_pc' = "set"
          /\ self_monitor_list' = [set |-> TRUE, data |-> <<>>]
          /\ json2' = Valid(<<>>)
          /\ ~load_user_monitors(json2').raised
          /\ load_user_monitors(json2').monitor_list = <<>>
    ]_vars

\* C18 witness: the document was missing or corrupt, start-up went on and a
\* handler has read the empty valid document
C18_Witness ==
  /\ load_end = "recovered" /\ self_monitor_list.set
  /\ \E t \in Tasks : boot[t].pc = "proceeded" /\ boot[t].read = Valid(<<>>)

\* C19: an unsubscribe for a game that has no item in the store, or by an
\* address that is not among the item's subscribers, is answered as
\* not-subscribed, the handler returns, and the store is left as it was.
C19_UnsubscribeNonMember ==
  [][\A c \in Origins :
       /\ (cmd[c].pc = "unsub_resolved" /\ cmd'[c].pc = "unsub_locked"
           /\ c \notin SubscribersOf(file, cmd[c].game_id))
            => cmd'[c].reply = (IF Has(file, cmd[c].game_id) THEN "not_subscribed"
                                ELSE "game_not_subscribed")
       /\ (cmd[c].pc = "unsub_locked" /\ cmd'[c] # cmd[c]
           /\ cmd[c].reply \in {"not_subscribed", "game_not_subscribed"})
            => file' = file /\ cmd'[c].pc = "idle"
    ]_vars

\* C19 witness: an address that is not a subscriber of a stored item has been
\* answered not-subscribed and is about to leave the exclusive section
C19_Witness ==
  \E c \in Origins :
    /\ cmd[c].pc = "unsub_locked" /\ cmd[c].reply = "not_subscribed"
    /\ Has(file, cmd[c].game_id)
    /\ SubscribersOf(file, cmd[c].game_id) = Origins \ {c}

\* the step in which round t yields an event: the first event of an item is
\* yielded in the step of the dump (nothing is awaited between line 376 and
\* the yield), the event of a later subscriber when the send to the one before
\* it has returned
Emits(t) ==
  /\ rnd'[t].pc = "notify"
  /\ rnd[t].pc # "notify" \/ rnd'[t].j # rnd[t].j

\* the address the event yielded by round t goes to
Emitted(t) ==
  rnd'[t].current_monitor_list[rnd'[t].i].subscribers[rnd'[t].j]

\* C20: a round persists the new snapshot of a changed item once, before the
\* first event for the item; no event for a change is yielded while the store
\* still holds the old last_price of the item.
C20_PersistedBeforeNotified ==
  [][\A t \in Tasks :
       LET r == rnd[t]
           game_info == r.current_monitor_list[r.i]
           appid == rnd'[t].current_monitor_list[rnd'[t].i].appid IN
       /\ (r.pc # "notify" /\ rnd'[t].pc = "notify")
            => r.pc = "write" /\ Get(file', game_info.appid) = game_info
       /\ (Emits(t) /\ Has(file', appid))
            => Get(file', appid).last_price # rnd'[t].msg_components[2].last_price
    ]_vars

\* two stored items that differ at most in their price snapshot
SameButSnapshot(a, b) ==
  [a EXCEPT !.last_price = b.last_price, !.original_price = b.original_price,
            !.discount = b.discount] = b

\* C21: every read-modify-write-persist unit on the store runs under one hold
\* of the lock from its read to its persist: a command between its read and
\* its dump holds the lock and nobody else writes meanwhile, and when a round
\* persists its update of an item the store is still as the round read it
\* (but for the round's own earlier dumps).
C21_OneHoldPerUnit ==
  [][/\ \A c \in Origins :
          cmd[c].pc \in {"sub_locked", "unsub_locked"}
            => lock = c /\ (file' # file => cmd'[c] # cmd[c])
     /\ \A t \in Tasks :
          LET r == rnd[t] IN
          (r.pc = "write" /\ rnd'[t] # r)
            => /\ Len(file) = Len(r.current_monitor_list)
               /\ \A k \in 1..Len(file) :
                    IF k = r.i THEN SameButSnapshot(file[k], r.current_monitor_list[k])
                    ELSE file[k] = r.current_monitor_list[k]
    ]_vars

\* C22: an event for an item is yielded only to an address that is among the
\* item's subscribers in the store at that moment; an address whose
\* unsubscribe has completed gets no further event for the item.
C22_NotifiedOnlySubscribers ==
  [][\A t \in Tasks :
       Emits(t)
         => Emitted(t) \in
              SubscribersOf(file', rnd'[t].current_monitor_list[rnd'[t].i].appid)
    ]_vars

\* the mention targets an event for an address has
MentionTargets(origin) ==
  IF origin[2] = "GroupMessage" /\ Len(origin[3]) = 2
  THEN << <<origin[3][1]>> >>
  ELSE <<>>

\* the mentions a message carries
Mentions(msg) == SelectSeq(msg, LAMBDA m : m.type = "At")

\* C23: the message dispatched to a subscriber carries the mentions of that
\* event's own mention targets and no other: the message for a later
\* subscriber of an item holds no mention attached for an earlier one.
C23_OwnMentionsOnly ==
  [][\A t \in Tasks :
       LET r == rnd[t]
           game_info == r.current_monitor_list[r.i]
           targets == MentionTargets(game_info.subscribers[r.j]) IN
       (r.pc = "notify" /\ rnd'[t].pc = "notify" /\ rnd'[t].i = r.i
        /\ rnd'[t].j = r.j + 1)
         => Mentions(rnd'[t].msg_components) =
              [k \in 1..Len(targets) |-> [type |-> "At", qq |-> targets[k]]]
    ]_vars

\* C24: a round that persists its update of one item leaves the stored
\* last_price, original_price and discount of every other item as they are
\* in the store at that moment.
C24_NoSnapshotRegress ==
  [][\A t \in Tasks :
       LET r == rnd[t]
           game_info == r.current_monitor_list[r.i] IN
       (r.pc = "write" /\ rnd'[t] # r)
         => \A k \in 1..Len(file) :
              (file[k].appid # game_info.appid /\ Has(file', file[k].appid))
                => LET after == Get(file', file[k].appid) IN
                   /\ after.last_price = file[k].last_price
                   /\ after.original_price = file[k].original_price
                   /\ after.discount = file[k].discount
    ]_vars

\* C25: for every outcome of start-up (sync completed or failed, snapshot
\* usable or not, store document valid, missing, corrupt or unreadable) the
\* event data_initialized is eventually set, and every handler waiting for it
\* eventually goes on.
C25_EventuallyInitialized ==
  /\ <>data_initialized
  /\ \A t \in Tasks : (boot[t].pc = "wait") ~> (boot[t].pc # "wait")
====
